---- MODULE Spec2Model ----
(***************************************************************************)
(* Job Hunter: the store (jobs, applications, auto-apply logs, settings,   *)
(* daily stats), the scraper manager's save_jobs and the auto-apply        *)
(* scheduler (AutoApplyManager), modelled from src/app.                    *)
(***************************************************************************)
EXTENDS Integers, Sequences, FiniteSets, TLC

VARIABLES
  jobs,      \* table jobs: sequence of Job rows, the index is Job.id
  apps,      \* table applications: sequence of Application rows
  logs,      \* table auto_apply_logs: sequence of AutoApplyLog rows
  settings,  \* table auto_apply_settings: sequence of AutoApplySettings rows
  stats,     \* table stats: sequence of Stats rows (one per date)
  now,       \* datetime.utcnow(), at the granularity of a calendar date
  run,       \* the invocation of run_daily_auto_apply in progress
  sent,      \* application emails delivered by EmailService, in order
  runs,      \* number of invocations of run_daily_auto_apply so far
  last       \* what the last operation did and returned

vars == <<jobs, apps, logs, settings, stats, now, run, sent, runs, last>>

----------------------------------------------------------------------------
(* Bounds of the model.                                                    *)

MaxJobs == 2      \* rows in table jobs
MaxRuns == 2      \* invocations of run_daily_auto_apply
MaxQuota == 2     \* largest max_applications_per_day configured
MaxTime == 1      \* last value of the clock
MaxBatch == 1     \* records in one save_jobs batch
MaxApps == 2      \* rows in table applications when a route adds one
MaxCount == 1     \* status changes counted in a Stats row when a route adds one
MaxWide == 2      \* records in one save_jobs batch of the wide catalog

----------------------------------------------------------------------------
(* Text.  A column text is a tuple of one-character strings, Null when the *)
(* column is NULL; an optional address is a string, None when absent.      *)

Null == <<"NULL">>
None == "None"
NoDate == -1

S_Dev == <<"D", "e", "v">>
S_Ops == <<"O", "p", "s">>
S_DevOps == <<"D", "e", "v", "O", "p", "s">>
S_Ke == <<"K", "e">>
S_ke == <<"k", "e">>
S_Rem == <<"R", "e", "m">>
S_ops_dev == <<"o", "p", "s", ",", " ", "d", "e", "v">>

Min(a, b) == IF a <= b THEN a ELSE b
Max(a, b) == IF a >= b THEN a ELSE b

Take(s, n) == SubSeq(s, 1, n)

UpperCase ==
  <<"A", "B", "C", "D", "E", "F", "G", "H", "I", "J", "K", "L", "M",
    "N", "O", "P", "Q", "R", "S", "T", "U", "V", "W", "X", "Y", "Z">>

LowerCase ==
  <<"a", "b", "c", "d", "e", "f", "g", "h", "i", "j", "k", "l", "m",
    "n", "o", "p", "q", "r", "s", "t", "u", "v", "w", "x", "y", "z">>

\* str.lower() on one character
LowerChar(c) ==
  IF \E i \in 1..26 : UpperCase[i] = c
  THEN LowerCase[CHOOSE i \in 1..26 : UpperCase[i] = c]
  ELSE c

Lower(s) == [i \in 1..Len(s) |-> LowerChar(s[i])]

Contains(s, sub) ==
  \E i \in 0..(Len(s) - Len(sub)) : SubSeq(s, i + 1, i + Len(sub)) = sub

\* Column.like('%pat%'): the case counts
ILike_case_sensitive(text, pat) == text # Null /\ Contains(text, pat)

\* Column.ilike('%pat%'): NULL never matches, case is ignored
ILike(text, pat) == text # Null /\ Contains(Lower(text), Lower(pat))

IsSpace(c) == c = " "

RECURSIVE LStrip(_)
LStrip(s) == IF s # <<>> /\ IsSpace(Head(s)) THEN LStrip(Tail(s)) ELSE s

RECURSIVE RStrip(_)
RStrip(s) ==
  IF s # <<>> /\ IsSpace(s[Len(s)]) THEN RStrip(SubSeq(s, 1, Len(s) - 1)) ELSE s

Strip(s) == RStrip(LStrip(s))

\* str.split(','): always at least one piece
RECURSIVE SplitComma(_, _)
SplitComma(s, cur) ==
  IF s = <<>> THEN <<cur>>
  ELSE IF Head(s) = "," THEN <<cur>> \o SplitComma(Tail(s), <<>>)
  ELSE SplitComma(Tail(s), Append(cur, Head(s)))

\* AutoApplySettings.get_job_titles_list / get_locations_list /
\* get_job_types_list
ParseList(text) ==
  IF text = Null \/ text = <<>> THEN <<>>
  ELSE LET parts == SplitComma(text, <<>>)
       IN [i \in 1..Len(parts) |-> Strip(parts[i])]

get_job_titles_list(s) == ParseList(s.job_titles)
get_locations_list(s) == ParseList(s.locations)
get_job_types_list(s) == ParseList(s.job_types)

----------------------------------------------------------------------------
(* Descriptions are sequences of words; a word either contains a match of  *)
(* the e-mail pattern or it does not.                                      *)

EmailWords == {"jane.doe@acme.com", "hr@corp.io"}

\* matches[-1] in place of matches[0]
_extract_email_last(description) ==
  LET matches == SelectSeq(description, LAMBDA w : w \in EmailWords)
  IN IF matches # <<>> THEN matches[Len(matches)] ELSE None

_extract_email(description) ==
  LET matches == SelectSeq(description, LAMBDA w : w \in EmailWords)
  IN IF matches # <<>> THEN matches[1] ELSE None

\* job.description or ''
OrEmpty(description) == IF description = Null THEN <<>> ELSE description

----------------------------------------------------------------------------
(* What the scrapers hand to save_jobs.                                    *)

JobData(t, c, u, l, d, sc, ct) ==
  [title |-> t, company |-> c, url |-> u, location |-> l, description |-> d,
   relevance_score |-> sc, contract_type |-> ct]

Catalog ==
  { JobData(S_Dev, "Acme", "u1", S_Ke,
            <<"apply", "jane.doe@acme.com", "hr@corp.io">>, 90, S_Rem),
    JobData(S_Ops, "Acme", "u2", S_Ke, <<"apply", "online">>, 70, S_Rem),
    JobData(S_DevOps, "Corp", "u3", Null, Null, 70, Null) }

\* ScraperManager.generate_job_id: a digest of url, title and company
generate_job_id(title, company, url) == <<url, title, company>>

\* re.sub(r'[^a-zA-Z0-9]', '', text)
Digits == <<"0", "1", "2", "3", "4", "5", "6", "7", "8", "9">>

IsAlnum(c) ==
  \/ \E i \in 1..26 : UpperCase[i] = c \/ LowerCase[i] = c
  \/ \E i \in 1..10 : Digits[i] = c

Clean(text) == SelectSeq(text, IsAlnum)

\* JobScraper.generate_job_id of scrapers.py: the cleaned company and title,
\* cut to 20 and 30 characters, and a digest of the url
JobScraper_generate_job_id(title, company, url) ==
  <<Take(Clean(company), Min(20, Len(Clean(company)))),
    Take(Clean(title), Min(30, Len(Clean(title)))),
    url>>

----------------------------------------------------------------------------
(* Initial state: empty tables but for the settings row the user may have  *)
(* configured.                                                             *)

SettingsRow(en, mx, jt, loc, ty) ==
  [enabled |-> en, job_titles |-> jt, locations |-> loc, job_types |-> ty,
   max_applications_per_day |-> mx, total_auto_applied |-> 0,
   last_run |-> NoDate]

QuotaValues == (-1)..MaxQuota

\* the criteria texts the user may have configured: titles, locations, types
Criteria ==
  { <<Null, Null, Null>>, <<S_ops_dev, S_ke, Null>> }

SettingsRows ==
  { SettingsRow(TRUE, mx, c[1], c[2], c[3]) :
      mx \in QuotaValues, c \in Criteria }
  \cup { SettingsRow(FALSE, MaxQuota, Null, Null, Null) }

\* no invocation in progress.  Of an invocation: the settings row it uses,
\* the Matcher's list, the slice the loop walks, the jobs handed to
\* _apply_to_job so far, applied_count, the increments of total_auto_applied
\* not yet committed, and the tables jobs, stats, settings and logs as the
\* invocation found them
IdleRun ==
  [pc |-> "idle", sid |-> 0, matching |-> <<>>, admitted |-> <<>>,
   passed |-> <<>>, applied_count |-> 0, pending |-> 0,
   jobs0 |-> <<>>, stats0 |-> <<>>, settings0 |-> <<>>, logs0 |-> <<>>]

NoOp == [op |-> "none", job |-> 0, path |-> "none", ret |-> 0]

Init ==
  /\ jobs = <<>>
  /\ apps = <<>>
  /\ logs = <<>>
  /\ settings \in {<<>>} \cup { <<r>> : r \in SettingsRows }
  /\ stats = <<>>
  /\ now = 0
  /\ run = IdleRun
  /\ sent = <<>>
  /\ runs = 0
  /\ last = NoOp

----------------------------------------------------------------------------
(* The clock.                                                              *)

Tick ==
  /\ run.pc = "idle"
  /\ now < MaxTime
  /\ now' = now + 1
  /\ UNCHANGED <<jobs, apps, logs, settings, stats, run, sent, runs, last>>

----------------------------------------------------------------------------
(* ScraperManager.save_jobs                                                *)

JobRow(d) ==
  [job_id |-> generate_job_id(d.title, d.company, d.url),
   title |-> d.title, company |-> d.company, location |-> d.location,
   url |-> d.url, description |-> d.description,
   relevance_score |-> d.relevance_score, status |-> "Found",
   applied_date |-> NoDate, job_type |-> d.contract_type]

\* the lookup without autoflush: the rows the session has added are not seen
IsKnown_committed(tbl, job_id) ==
  \E i \in 1..Len(jobs) : jobs[i].job_id = job_id

\* Job.query.filter_by(job_id=job_id).first(), over the rows of the table
\* and the rows the session has added so far
IsKnown(tbl, job_id) == \E i \in 1..Len(tbl) : tbl[i].job_id = job_id

\* a known posting written again over its row (an upsert), where the code
\* skips it
RECURSIVE SaveLoop_upsert(_, _)
SaveLoop_upsert(tbl, batch) ==
  IF batch = <<>> THEN tbl
  ELSE LET d == Head(batch)
           id == generate_job_id(d.title, d.company, d.url)
       IN IF IsKnown(tbl, id)
          THEN SaveLoop_upsert(
                 [i \in 1..Len(tbl) |->
                    IF tbl[i].job_id = id THEN JobRow(d) ELSE tbl[i]],
                 Tail(batch))
          ELSE SaveLoop_upsert(Append(tbl, JobRow(d)), Tail(batch))

\* the loop of save_jobs: the table with the new rows added
RECURSIVE SaveLoop(_, _)
SaveLoop(tbl, batch) ==
  IF batch = <<>> THEN tbl
  ELSE LET d == Head(batch)
       IN IF IsKnown(tbl, generate_job_id(d.title, d.company, d.url))
          THEN SaveLoop(tbl, Tail(batch))
          ELSE SaveLoop(Append(tbl, JobRow(d)), Tail(batch))

StatsRow(date) ==
  [date |-> date, jobs_found |-> 0, jobs_applied |-> 0,
   interviews_scheduled |-> 0, rejections_received |-> 0,
   offers_received |-> 0]

\* Stats.query.filter_by(date=today).first(), created when absent
StatsIndex(tbl, date) ==
  IF \E i \in 1..Len(tbl) : tbl[i].date = date
  THEN CHOOSE i \in 1..Len(tbl) :
         tbl[i].date = date /\ \A k \in 1..(i - 1) : tbl[k].date # date
  ELSE Len(tbl) + 1

\* a new row whether the date has one or not
StatsGetOrCreate_always(tbl, date) == Append(tbl, StatsRow(date))

StatsGetOrCreate(tbl, date) ==
  IF StatsIndex(tbl, date) > Len(tbl) THEN Append(tbl, StatsRow(date)) ELSE tbl

Batches == UNION { [1..n -> Catalog] : n \in 1..MaxBatch }

save_jobs(batch, commitOk, statsCommitOk) ==
  LET added == SaveLoop(jobs, batch)
      saved_count == Len(added) - Len(jobs)
      st == StatsGetOrCreate(stats, now)
      k == StatsIndex(stats, now)
  IN /\ Len(added) <= MaxJobs
     /\ jobs' = IF commitOk THEN added ELSE jobs
     /\ stats' = IF commitOk /\ statsCommitOk
                 THEN [st EXCEPT ![k].jobs_found = @ + saved_count]
                 ELSE stats
     /\ last' = [op |-> "save", job |-> 0,
                 path |-> IF commitOk /\ statsCommitOk THEN "saved"
                          ELSE "rollback",
                 ret |-> saved_count]
     /\ UNCHANGED <<apps, logs, settings, now, run, sent, runs>>

SaveJobs ==
  /\ run.pc = "idle"
  /\ \E batch \in Batches, commitOk \in BOOLEAN, statsCommitOk \in BOOLEAN :
       save_jobs(batch, commitOk, statsCommitOk)

----------------------------------------------------------------------------
(* AutoApplyManager._find_matching_jobs                                    *)

AnyILike(text, pats) == \E k \in 1..Len(pats) : ILike(text, pats[k])

\* the query without filter_by(status='Found')
Matches_any_status(job, s) ==
  /\ get_job_titles_list(s) # <<>> => AnyILike(job.title, get_job_titles_list(s))
  /\ get_locations_list(s) # <<>> => AnyILike(job.location, get_locations_list(s))
  /\ get_job_types_list(s) # <<>> => AnyILike(job.job_type, get_job_types_list(s))

Matches(job, s) ==
  /\ job.status = "Found"
  /\ get_job_titles_list(s) # <<>> => AnyILike(job.title, get_job_titles_list(s))
  /\ get_locations_list(s) # <<>> => AnyILike(job.location, get_locations_list(s))
  /\ get_job_types_list(s) # <<>> => AnyILike(job.job_type, get_job_types_list(s))

MatchingIds(s) == { i \in 1..Len(jobs) : Matches(jobs[i], s) }

Orders(S) ==
  { p \in [1..Cardinality(S) -> S] : \A a, b \in 1..Cardinality(S) : a # b => p[a] # p[b] }

\* order_by(Job.relevance_score.desc()): rows of equal score come in the
\* order the database chooses
ScoreDescending(p) ==
  \A a, b \in 1..Len(p) :
    a < b => jobs[p[a]].relevance_score >= jobs[p[b]].relevance_score

_find_matching_jobs(s) == { p \in Orders(MatchingIds(s)) : ScoreDescending(p) }

\* the slice taken one element too far, seq[:n + 1]
SliceTo_one_more(seq, n) == Take(seq, Min(Max(n + 1, 0), Len(seq)))

\* the Python slice seq[:n]
SliceTo(seq, n) ==
  IF n >= 0 THEN Take(seq, Min(n, Len(seq)))
  ELSE Take(seq, Max(Len(seq) + n, 0))

----------------------------------------------------------------------------
(* AutoApplyManager.run_daily_auto_apply, up to the loop                   *)

\* the query without filter_by(enabled=True)
EnabledIds_all == 1..Len(settings)

EnabledIds == { i \in 1..Len(settings) : settings[i].enabled }

\* AutoApplySettings.query.filter_by(enabled=True).first()
FirstEnabled == CHOOSE i \in EnabledIds : \A k \in EnabledIds : i <= k

\* run_daily_auto_apply up to the first call of _apply_to_job
run_daily_auto_apply ==
  /\ run.pc = "idle"
  /\ IF EnabledIds = {}
     THEN /\ last' = [op |-> "run", job |-> 0, path |-> "disabled", ret |-> 0]
          /\ UNCHANGED run
     ELSE \E matching_jobs \in _find_matching_jobs(settings[FirstEnabled]) :
            IF matching_jobs = <<>>
            THEN /\ last' = [op |-> "run", job |-> 0, path |-> "no_match",
                             ret |-> 0]
                 /\ UNCHANGED run
            ELSE /\ run' = [pc |-> "loop", sid |-> FirstEnabled,
                            matching |-> matching_jobs,
                            admitted |->
                              SliceTo(matching_jobs,
                                settings[FirstEnabled].max_applications_per_day),
                            passed |-> <<>>, applied_count |-> 0,
                            pending |-> 0, jobs0 |-> jobs, stats0 |-> stats,
                            settings0 |-> settings, logs0 |-> logs]
                 /\ last' = [op |-> "run", job |-> 0, path |-> "started",
                             ret |-> 0]
  /\ UNCHANGED <<jobs, apps, logs, settings, stats, now, sent>>

RunStart ==
  /\ runs < MaxRuns
  /\ runs' = runs + 1
  /\ run_daily_auto_apply

----------------------------------------------------------------------------
(* AutoApplyManager._apply_to_job, one iteration of the loop of            *)
(* run_daily_auto_apply.                                                   *)

\* job.application
HasApplication(j) == \E k \in 1..Len(apps) : apps[k].job_id = j

ApplicationRow(j, emailSent) ==
  [job_id |-> j, cover_letter |-> "generated", applied_date |-> now,
   email_sent |-> emailSent]

LogRow(j, action, email, emailSent, telegramSent) ==
  [job_id |-> j, action |-> action, recruiter_email |-> email,
   email_sent |-> emailSent, telegram_sent |-> telegramSent]

\* EmailService.send_application raises when the mail settings are missing
\* or when both SMTP attempts fail; _send_application_email turns any
\* exception into False
MailOutcomes == {"sent", "config_missing", "smtp_failed"}

_send_application_email(mail) == mail = "sent"

\* a commit writes the pending total_auto_applied of the settings row too
Flush(tbl, sid, pending) ==
  [tbl EXCEPT ![sid].total_auto_applied = @ + pending]

\* the job the loop hands to _apply_to_job next
NextJob == run.admitted[Len(run.passed) + 1]

\* _apply_to_job returned: the loop goes on
Returned(j, path, ret, pending) ==
  /\ run' = [run EXCEPT !.passed = Append(@, j),
                        !.applied_count = IF ret THEN @ + 1 ELSE @,
                        !.pending = pending]
  /\ last' = [op |-> "apply", job |-> j, path |-> path,
              ret |-> IF ret THEN 1 ELSE 0]

\* _apply_to_job returned True after send_telegram_notification, whose result
\* (delivered or not: not configured, a status other than 200, an exception)
\* the caller does not look at
Notified(j, path, delivered) ==
  /\ run' = [run EXCEPT !.passed = Append(@, j),
                        !.applied_count = @ + 1,
                        !.pending = 1]
  /\ last' = [op |-> "apply", job |-> j, path |-> path, ret |-> 1,
              telegram |-> delivered]

\* an exception left _apply_to_job and run_daily_auto_apply: the session is
\* discarded with everything it had not committed
Raised(j, path) ==
  /\ run' = IdleRun
  /\ last' = [op |-> "apply", job |-> j, path |-> path, ret |-> -1]

\* except Exception: add the error log and commit.  After a failed flush the
\* session refuses every statement until rollback(), which the handler does
\* not call, so the handler raises in turn (handlerOk is then false).
Handler(j, handlerOk) ==
  IF handlerOk
  THEN /\ logs' = Append(logs, LogRow(j, "error", None, FALSE, FALSE))
       /\ settings' = Flush(settings, run.sid, run.pending)
       /\ Returned(j, "error", FALSE, 0)
       /\ UNCHANGED <<jobs, apps, sent>>
  ELSE /\ Raised(j, "raised")
       /\ UNCHANGED <<jobs, apps, logs, settings, sent>>

\* the skip counted as an application of the invocation
Skipped_counted(j, commitOk) ==
  IF commitOk
  THEN /\ logs' = Append(logs, LogRow(j, "skipped", None, FALSE, FALSE))
       /\ settings' = Flush(settings, run.sid, run.pending)
       /\ Returned(j, "skipped", TRUE, 1)
       /\ UNCHANGED <<jobs, apps, sent>>
  ELSE Handler(j, FALSE)

Skipped(j, commitOk) ==
  IF commitOk
  THEN /\ logs' = Append(logs, LogRow(j, "skipped", None, FALSE, FALSE))
       /\ settings' = Flush(settings, run.sid, run.pending)
       /\ Returned(j, "skipped", FALSE, 0)
       /\ UNCHANGED <<jobs, apps, sent>>
  ELSE Handler(j, FALSE)

\* the handler committing a session that still holds the work of the try
\* block, where the code leaves with the exception
AutoApplied_handler_commits(j, recruiter_email, commitOk) ==
  /\ sent' = Append(sent, [job |-> j, to |-> recruiter_email])
  /\ apps' = Append(apps, ApplicationRow(j, TRUE))
  /\ jobs' = [jobs EXCEPT ![j].status = "Applied", ![j].applied_date = now]
  /\ settings' = Flush(settings, run.sid, run.pending)
  /\ IF commitOk
     THEN /\ logs' = Append(logs,
                       LogRow(j, "auto_applied", recruiter_email, TRUE, TRUE))
          /\ Returned(j, "auto_applied", TRUE, 1)
     ELSE /\ logs' = Append(Append(logs,
                         LogRow(j, "auto_applied", recruiter_email, TRUE, TRUE)),
                       LogRow(j, "error", None, FALSE, FALSE))
          /\ Returned(j, "error", FALSE, 0)

AutoApplied(j, recruiter_email, commitOk) ==
  /\ sent' = Append(sent, [job |-> j, to |-> recruiter_email])
  /\ IF commitOk
     THEN /\ apps' = Append(apps, ApplicationRow(j, TRUE))
          /\ jobs' = [jobs EXCEPT ![j].status = "Applied",
                                  ![j].applied_date = now]
          /\ logs' = Append(logs,
                       LogRow(j, "auto_applied", recruiter_email, TRUE, TRUE))
          /\ settings' = Flush(settings, run.sid, run.pending)
          /\ \E delivered \in BOOLEAN : Notified(j, "auto_applied", delivered)
     ELSE /\ Raised(j, "raised")
          /\ UNCHANGED <<jobs, apps, logs, settings>>

\* the send failed: neither branch of "if success" runs and the function
\* ends without a return statement
Unsent(j) ==
  /\ Returned(j, "unsent", FALSE, run.pending)
  /\ UNCHANGED <<jobs, apps, logs, settings, sent>>

\* the manual branch advancing the status as the automatic branch does
ManualNeeded_advances(j, commitOk) ==
  IF commitOk
  THEN /\ apps' = Append(apps, ApplicationRow(j, FALSE))
       /\ jobs' = [jobs EXCEPT ![j].status = "Applied",
                               ![j].applied_date = now]
       /\ logs' = Append(logs,
                    LogRow(j, "manual_apply_needed", None, FALSE, TRUE))
       /\ settings' = Flush(settings, run.sid, run.pending)
       /\ Returned(j, "manual_apply_needed", TRUE, 1)
       /\ UNCHANGED sent
  ELSE Handler(j, FALSE)

\* total_auto_applied counted in the automatic branch only
ManualNeeded_uncounted(j, commitOk) ==
  IF commitOk
  THEN /\ apps' = Append(apps, ApplicationRow(j, FALSE))
       /\ jobs' = [jobs EXCEPT ![j].status = "Found"]
       /\ logs' = Append(logs,
                    LogRow(j, "manual_apply_needed", None, FALSE, TRUE))
       /\ settings' = Flush(settings, run.sid, run.pending)
       /\ Returned(j, "manual_apply_needed", TRUE, 0)
       /\ UNCHANGED sent
  ELSE Handler(j, FALSE)

ManualNeeded(j, commitOk) ==
  IF commitOk
  THEN /\ apps' = Append(apps, ApplicationRow(j, FALSE))
       /\ jobs' = [jobs EXCEPT ![j].status = "Found"]
       /\ logs' = Append(logs,
                    LogRow(j, "manual_apply_needed", None, FALSE, TRUE))
       /\ settings' = Flush(settings, run.sid, run.pending)
       /\ \E delivered \in BOOLEAN :
            Notified(j, "manual_apply_needed", delivered)
       /\ UNCHANGED sent
  ELSE Handler(j, FALSE)

_apply_to_job(j, readOk, mail, commitOk, handlerOk) ==
  LET recruiter_email == _extract_email(OrEmpty(jobs[j].description))
  IN IF ~readOk THEN Handler(j, handlerOk)
     ELSE IF HasApplication(j) THEN Skipped(j, commitOk)
     ELSE IF recruiter_email # None
     THEN IF _send_application_email(mail)
          THEN AutoApplied(j, recruiter_email, commitOk)
          ELSE Unsent(j)
     ELSE ManualNeeded(j, commitOk)

ApplyToJob ==
  /\ run.pc = "loop"
  /\ Len(run.passed) < Len(run.admitted)
  /\ \E readOk \in BOOLEAN, mail \in MailOutcomes, commitOk \in BOOLEAN,
        handlerOk \in BOOLEAN :
       _apply_to_job(NextJob, readOk, mail, commitOk, handlerOk)
  /\ UNCHANGED <<stats, now, runs>>

----------------------------------------------------------------------------
(* run_daily_auto_apply after the loop                                     *)

RunEnd ==
  /\ run.pc = "loop"
  /\ Len(run.passed) = Len(run.admitted)
  /\ \E commitOk \in BOOLEAN :
       IF commitOk
       THEN /\ settings' = [Flush(settings, run.sid, run.pending)
                              EXCEPT ![run.sid].last_run = now]
            /\ last' = [op |-> "run", job |-> 0, path |-> "done",
                        ret |-> run.applied_count]
       ELSE /\ last' = [op |-> "run", job |-> 0, path |-> "raised",
                        ret |-> -1]
            /\ UNCHANGED settings
  /\ run' = IdleRun
  /\ UNCHANGED <<jobs, apps, logs, stats, now, sent, runs>>

----------------------------------------------------------------------------
(* routes.py: update_job_status (PATCH /api/job/<id>/status) and           *)
(* bulk_apply (POST /api/bulk-apply).  A request is served between the     *)
(* invocations of the scheduler.                                           *)

\* the statuses of the comment at Job.status
Statuses == {"Found", "Applied", "Interview", "Rejected", "Offer"}

\* the statuses that update_job_status counts in the Stats row
Counted == {"Applied", "Interview", "Rejected", "Offer"}

\* data.get('status') of a request: absent, a status of the list, or any
\* other text
RequestStatuses == {None} \cup Statuses \cup {"Archived"}

\* data.get('cover_letter') of a request
RequestLetters == {None, "edited"}

\* job.application: with uselist=False the first row of the job
ApplicationOf(tbl, j) ==
  CHOOSE k \in 1..Len(tbl) :
    tbl[k].job_id = j /\ \A i \in 1..(k - 1) : tbl[i].job_id # j

\* Application(job_id=..., cover_letter=..., applied_date=utcnow(),
\* email_sent=False) of the two routes
RouteApplication(j, cover_letter) ==
  [job_id |-> j, cover_letter |-> cover_letter, applied_date |-> now,
   email_sent |-> FALSE]

\* the counter of the Stats row that a status adds to
CounterOf(status) ==
  CASE status = "Applied" -> "jobs_applied"
    [] status = "Interview" -> "interviews_scheduled"
    [] status = "Rejected" -> "rejections_received"
    [] status = "Offer" -> "offers_received"

\* the status changes counted in the Stats row of a date, 0 without row
DayCount(tbl, date) ==
  IF StatsIndex(tbl, date) > Len(tbl) THEN 0
  ELSE LET r == tbl[StatsIndex(tbl, date)]
       IN r.jobs_applied + r.interviews_scheduled + r.rejections_received
          + r.offers_received

Response(op, j, path, code) == [op |-> op, job |-> j, path |-> path, ret |-> code]

\* a Stats row made by Stats(date=today, jobs_found=0) has None in its other
\* counters until it is flushed: "+= 1" on it raises TypeError, the except
\* block rolls the whole request back
update_job_status(job_id, new_status, cover_letter, commitOk) ==
  LET k == StatsIndex(stats, now)
      created == k > Len(stats)
      st == StatsGetOrCreate(stats, now)
      withLetter == new_status = "Applied" /\ cover_letter # None
  IN IF job_id \notin 1..Len(jobs)
     THEN /\ last' = Response("status", 0, "error", 500)
          /\ UNCHANGED <<jobs, apps, stats>>
     ELSE IF new_status = None
     THEN /\ last' = Response("status", job_id, "no_status", 400)
          /\ UNCHANGED <<jobs, apps, stats>>
     ELSE IF (created /\ new_status \in Counted) \/ ~commitOk
     THEN /\ last' = Response("status", job_id, "error", 500)
          /\ UNCHANGED <<jobs, apps, stats>>
     ELSE /\ jobs' = [jobs EXCEPT
                        ![job_id].status = new_status,
                        ![job_id].applied_date =
                          IF new_status = "Applied" THEN now ELSE @]
          /\ apps' = IF ~withLetter THEN apps
                     ELSE IF HasApplication(job_id)
                     THEN [apps EXCEPT
                             ![ApplicationOf(apps, job_id)].cover_letter =
                               cover_letter,
                             ![ApplicationOf(apps, job_id)].applied_date = now]
                     ELSE Append(apps, RouteApplication(job_id, cover_letter))
          /\ stats' = IF new_status \in Counted
                      THEN [st EXCEPT ![k][CounterOf(new_status)] = @ + 1]
                      ELSE st
          /\ last' = Response("status", job_id, "updated", 200)

UpdateJobStatus ==
  /\ run.pc = "idle"
  /\ Len(apps) < MaxApps
  /\ DayCount(stats, now) < MaxCount
  /\ \E job_id \in 0..Len(jobs), new_status \in RequestStatuses,
        cover_letter \in RequestLetters, commitOk \in BOOLEAN :
       update_job_status(job_id, new_status, cover_letter, commitOk)
  /\ UNCHANGED <<logs, settings, now, run, sent, runs>>

\* the loop of bulk_apply over job_ids: the tables jobs and applications of
\* the session
RECURSIVE BulkLoop(_, _, _)
BulkLoop(tj, ta, job_ids) ==
  IF job_ids = <<>> THEN <<tj, ta>>
  ELSE LET j == Head(job_ids)
       IN IF j \in 1..Len(tj) /\ tj[j].status = "Found"
          THEN BulkLoop(
                 [tj EXCEPT ![j].status = "Applied", ![j].applied_date = now],
                 Append(ta, RouteApplication(j, "generated")),
                 Tail(job_ids))
          ELSE BulkLoop(tj, ta, Tail(job_ids))

\* the lists of ids a request may carry: 0 is an id of no job
IdLists ==
  UNION { { p \in [1..n -> 0..Len(jobs)] :
              \A a, b \in 1..n : a # b => p[a] # p[b] } :
          n \in 0..(Len(jobs) + 1) }

bulk_apply(job_ids, commitOk, statsCommitOk) ==
  LET done == BulkLoop(jobs, apps, job_ids)
      applied == Len(done[2]) - Len(apps)
      k == StatsIndex(stats, now)
      created == k > Len(stats)
  IN IF job_ids = <<>>
     THEN /\ last' = Response("bulk", 0, "none_selected", 400)
          /\ UNCHANGED <<jobs, apps, stats>>
     ELSE IF ~commitOk
     THEN /\ last' = Response("bulk", 0, "error", 500)
          /\ UNCHANGED <<jobs, apps, stats>>
     ELSE /\ jobs' = done[1]
          /\ apps' = done[2]
          /\ IF created \/ ~statsCommitOk
             THEN /\ last' = Response("bulk", applied, "error", 500)
                  /\ UNCHANGED stats
             ELSE /\ stats' = [stats EXCEPT ![k].jobs_applied = @ + applied]
                  /\ last' = Response("bulk", applied, "applied", 200)

BulkApply ==
  /\ run.pc = "idle"
  /\ \E job_ids \in IdLists, commitOk \in BOOLEAN, statsCommitOk \in BOOLEAN :
       /\ Len(BulkLoop(jobs, apps, job_ids)[2]) <= MaxApps
       /\ DayCount(stats, now) + Len(job_ids) <= MaxCount + 1
       /\ bulk_apply(job_ids, commitOk, statsCommitOk)
  /\ UNCHANGED <<logs, settings, now, run, sent, runs>>

----------------------------------------------------------------------------

Next ==
  \/ Tick
  \/ SaveJobs
  \/ RunStart
  \/ ApplyToJob
  \/ RunEnd

Spec == Init /\ [][Next]_vars

----------------------------------------------------------------------------
(* The routes.  The scrapers find one posting, again and again: the store  *)
(* holds one job, whose status, applications and statistics the requests   *)
(* and the scheduler change.                                               *)

\* save_jobs with a batch of one posting, on a store that holds no other
SavePosting ==
  /\ run.pc = "idle"
  /\ \E d \in Catalog, commitOk \in BOOLEAN, statsCommitOk \in BOOLEAN :
       /\ \A i \in 1..Len(jobs) :
            jobs[i].job_id = generate_job_id(d.title, d.company, d.url)
       /\ save_jobs(<<d>>, commitOk, statsCommitOk)

\* the requests and save_jobs over the days, no settings row
InitRoutes ==
  /\ Init
  /\ settings = <<>>

NextRoutes ==
  \/ Tick
  \/ SavePosting
  \/ UpdateJobStatus
  \/ BulkApply

SpecRoutes == InitRoutes /\ [][NextRoutes]_vars

\* the requests, save_jobs and the scheduler within one day; the user has
\* enabled auto-apply without criteria
InitMixed ==
  /\ Init
  /\ settings = <<SettingsRow(TRUE, MaxQuota, Null, Null, Null)>>

NextMixed ==
  \/ SavePosting
  \/ RunStart
  \/ ApplyToJob
  \/ RunEnd
  \/ UpdateJobStatus
  \/ BulkApply

SpecMixed == InitMixed /\ [][NextMixed]_vars

----------------------------------------------------------------------------
(* save_jobs alone, over postings that differ in description only, in the  *)
(* case of the title only, or in the whitespace of the title only.         *)

S_dev == <<"d", "e", "v">>
S_Dev_sp == <<"D", "e", "v", " ">>
S_Acme == <<"A", "c", "m", "e">>
S_Corp == <<"C", "o", "r", "p">>

WideCatalog ==
  { JobData(S_Dev, S_Acme, "u1", S_Ke, <<"apply", "hr@corp.io">>, 90, S_Rem),
    JobData(S_Dev, S_Acme, "u1", S_Ke, <<"apply", "online">>, 70, S_Rem),
    JobData(S_dev, S_Acme, "u1", S_Ke, <<"apply", "hr@corp.io">>, 90, S_Rem),
    JobData(S_Dev_sp, S_Acme, "u1", S_Ke, <<"apply", "hr@corp.io">>, 90, S_Rem),
    JobData(S_DevOps, S_Corp, "u3", Null, Null, 70, Null) }

WideBatches == UNION { [1..n -> WideCatalog] : n \in 1..MaxWide }

SaveWide ==
  /\ run.pc = "idle"
  /\ \E batch \in WideBatches, commitOk \in BOOLEAN, statsCommitOk \in BOOLEAN :
       save_jobs(batch, commitOk, statsCommitOk)

InitSave ==
  /\ Init
  /\ settings = <<>>

NextSave ==
  \/ Tick
  \/ SaveWide

SpecSave == InitSave /\ [][NextSave]_vars

----------------------------------------------------------------------------
(* The Matcher alone: an invocation starts on a store of three jobs, each  *)
(* "Found" or "Applied", with one enabled settings row of any criteria.    *)

S_dev_comma == <<"d", "e", "v", ",">>
S_blank == <<" ">>
S_x == <<"x">>
S_rem == <<"r", "e", "m">>

TitleCriteria == {Null, <<>>, S_dev, S_ops_dev, S_dev_comma, S_blank, S_x}
LocationCriteria == {Null, S_ke, S_x}
TypeCriteria == {Null, S_rem, S_blank}

\* the three postings of the catalog, stored in the order of their urls
StoredCatalog ==
  LET byUrl(u) == CHOOSE d \in Catalog : d.url = u
  IN <<JobRow(byUrl("u1")), JobRow(byUrl("u2")), JobRow(byUrl("u3"))>>

InitMatch ==
  /\ jobs \in { [i \in 1..3 |-> [StoredCatalog[i] EXCEPT !.status = st[i]]] :
                  st \in [1..3 -> {"Found", "Applied"}] }
  /\ apps = <<>>
  /\ logs = <<>>
  /\ settings \in { <<SettingsRow(TRUE, MaxQuota, jt, loc, ty)>> :
                      jt \in TitleCriteria, loc \in LocationCriteria,
                      ty \in TypeCriteria }
  /\ stats = <<>>
  /\ now = 0
  /\ run = IdleRun
  /\ sent = <<>>
  /\ runs = 0
  /\ last = NoOp

NextMatch == RunStart

SpecMatch == InitMatch /\ [][NextMatch]_vars

----------------------------------------------------------------------------
(* JobScraper.calculate_relevance of scrapers.py, called with a title, a   *)
(* description (None, empty or a text) and a company.                      *)

priority_keywords ==
  << <<"s", "o", "c">>,
     <<"s", "e", "c", "u", "r", "i", "t", "y">>,
     <<"c", "y", "b", "e", "r", "s", "e", "c", "u", "r", "i", "t", "y">>,
     <<"a", "n", "a", "l", "y", "s", "t">>,
     <<"i", "n", "f", "o", "s", "e", "c">>,
     <<"p", "y", "t", "h", "o", "n">>,
     <<"d", "e", "v", "e", "l", "o", "p", "e", "r">> >>

medium_keywords ==
  << <<"j", "u", "n", "i", "o", "r">>,
     <<"e", "n", "t", "r", "y">>,
     <<"a", "s", "s", "o", "c", "i", "a", "t", "e">>,
     <<"e", "n", "g", "i", "n", "e", "e", "r">>,
     <<"s", "p", "e", "c", "i", "a", "l", "i", "s", "t">> >>

Config_KEYWORDS ==
  << <<"S", "O", "C", " ", "A", "n", "a", "l", "y", "s", "t">>,
     <<"S", "e", "c", "u", "r", "i", "t", "y", " ", "A", "n", "a", "l",
       "y", "s", "t">>,
     <<"C", "y", "b", "e", "r", "s", "e", "c", "u", "r", "i", "t", "y">>,
     <<"J", "u", "n", "i", "o", "r", " ", "D", "e", "v", "e", "l", "o",
       "p", "e", "r">>,
     <<"D", "e", "v", "S", "e", "c", "O", "p", "s">>,
     <<"I", "n", "f", "o", "S", "e", "c">>,
     <<"S", "e", "c", "u", "r", "i", "t", "y", " ", "E", "n", "g", "i",
       "n", "e", "e", "r">>,
     <<"T", "h", "r", "e", "a", "t", " ", "A", "n", "a", "l", "y", "s", "t">>,
     <<"P", "y", "t", "h", "o", "n", " ", "D", "e", "v", "e", "l", "o",
       "p", "e", "r">>,
     <<"F", "u", "l", "l", " ", "S", "t", "a", "c", "k", " ", "D", "e",
       "v", "e", "l", "o", "p", "e", "r">>,
     <<"B", "a", "c", "k", "e", "n", "d", " ", "D", "e", "v", "e", "l",
       "o", "p", "e", "r">>,
     <<"D", "a", "t", "a", " ", "A", "n", "a", "l", "y", "s", "t">>,
     <<"D", "a", "t", "a", " ", "E", "n", "g", "i", "n", "e", "e", "r">>,
     <<"D", "a", "t", "a", "b", "a", "s", "e", " ", "A", "d", "m", "i",
       "n", "i", "s", "t", "r", "a", "t", "o", "r">>,
     <<"N", "e", "t", "w", "o", "r", "k", " ", "A", "d", "m", "i", "n",
       "i", "s", "t", "r", "a", "t", "o", "r">>,
     <<"N", "e", "t", "w", "o", "r", "k", " ", "E", "n", "g", "i", "n",
       "e", "e", "r">>,
     <<"I", "T", " ", "T", "e", "c", "h", "n", "i", "c", "i", "a", "n">>,
     <<"I", "T", " ", "S", "u", "p", "p", "o", "r", "t", " ", "S", "p",
       "e", "c", "i", "a", "l", "i", "s", "t">>,
     <<"I", "T", " ", "S", "u", "p", "p", "o", "r", "t", " ", "E", "n",
       "g", "i", "n", "e", "e", "r">>,
     <<"S", "y", "s", "t", "e", "m", "s", " ", "A", "d", "m", "i", "n",
       "i", "s", "t", "r", "a", "t", "o", "r">>,
     <<"I", "n", "f", "r", "a", "s", "t", "r", "u", "c", "t", "u", "r",
       "e", " ", "E", "n", "g", "i", "n", "e", "e", "r">>,
     <<"I", "T", " ", "S", "p", "e", "c", "i", "a", "l", "i", "s", "t">>,
     <<"C", "o", "m", "p", "u", "t", "e", "r", " ", "T", "e", "c", "h",
       "n", "i", "c", "i", "a", "n">>,
     <<"T", "e", "c", "h", "n", "i", "c", "a", "l", " ", "S", "u", "p",
       "p", "o", "r", "t">>,
     <<"H", "e", "l", "p", " ", "D", "e", "s", "k">>,
     <<"S", "y", "s", "t", "e", "m", " ", "A", "d", "m", "i", "n", "i",
       "s", "t", "r", "a", "t", "o", "r">> >>

location_keywords ==
  << <<"k", "e", "n", "y", "a">>,
     <<"r", "e", "m", "o", "t", "e">>,
     <<"n", "a", "i", "r", "o", "b", "i">>,
     <<"w", "o", "r", "k", " ", "f", "r", "o", "m", " ", "h", "o", "m", "e">> >>

negative_keywords ==
  << <<"s", "e", "n", "i", "o", "r">>,
     <<"5", "+", " ", "y", "e", "a", "r", "s">>,
     <<"7", "+", " ", "y", "e", "a", "r", "s">>,
     <<"1", "0", "+", " ", "y", "e", "a", "r", "s">>,
     <<"e", "x", "p", "e", "r", "t">>,
     <<"l", "e", "a", "d">>,
     <<"p", "r", "i", "n", "c", "i", "p", "a", "l">>,
     <<"m", "a", "n", "a", "g", "e", "r">>,
     <<"d", "i", "r", "e", "c", "t", "o", "r">> >>

\* "Junior SOC Security Analyst Python Developer Engineer"
T_many ==
  <<"J", "u", "n", "i", "o", "r", " ", "S", "O", "C", " ", "S", "e", "c",
    "u", "r", "i", "t", "y", " ", "A", "n", "a", "l", "y", "s", "t", " ",
    "P", "y", "t", "h", "o", "n", " ", "D", "e", "v", "e", "l", "o", "p",
    "e", "r", " ", "E", "n", "g", "i", "n", "e", "e", "r">>

\* "Senior Lead Manager"
T_senior ==
  <<"S", "e", "n", "i", "o", "r", " ", "L", "e", "a", "d", " ", "M", "a",
    "n", "a", "g", "e", "r">>

\* "Python Developer"
T_python ==
  <<"P", "y", "t", "h", "o", "n", " ", "D", "e", "v", "e", "l", "o", "p",
    "e", "r">>

\* "Associate"
T_associate ==
  <<"A", "s", "s", "o", "c", "i", "a", "t", "e">>

\* "Nurse"
T_nurse ==
  <<"N", "u", "r", "s", "e">>

\* "Senior Python Developer"
T_senior_python ==
  <<"S", "e", "n", "i", "o", "r", " ", "P", "y", "t", "h", "o", "n", " ",
    "D", "e", "v", "e", "l", "o", "p", "e", "r">>

\* "Remote Security Engineer"
T_remote ==
  <<"R", "e", "m", "o", "t", "e", " ", "S", "e", "c", "u", "r", "i", "t",
    "y", " ", "E", "n", "g", "i", "n", "e", "e", "r">>

\* "Python Developer in Nairobi"
D_nairobi ==
  <<"P", "y", "t", "h", "o", "n", " ", "D", "e", "v", "e", "l", "o", "p",
    "e", "r", " ", "i", "n", " ", "N", "a", "i", "r", "o", "b", "i">>

\* "5+ years as expert or lead"
D_years ==
  <<"5", "+", " ", "y", "e", "a", "r", "s", " ", "a", "s", " ", "e", "x",
    "p", "e", "r", "t", " ", "o", "r", " ", "l", "e", "a", "d">>

\* "SOC Analyst, Security Analyst, Cybersecurity, Junior Developer, DevSecOps, InfoSec, Help Desk"
D_many ==
  <<"S", "O", "C", " ", "A", "n", "a", "l", "y", "s", "t", ",", " ", "S",
    "e", "c", "u", "r", "i", "t", "y", " ", "A", "n", "a", "l", "y", "s",
    "t", ",", " ", "C", "y", "b", "e", "r", "s", "e", "c", "u", "r", "i",
    "t", "y", ",", " ", "J", "u", "n", "i", "o", "r", " ", "D", "e", "v",
    "e", "l", "o", "p", "e", "r", ",", " ", "D", "e", "v", "S", "e", "c",
    "O", "p", "s", ",", " ", "I", "n", "f", "o", "S", "e", "c", ",", " ",
    "H", "e", "l", "p", " ", "D", "e", "s", "k">>

\* "Kenya"
D_kenya ==
  <<"K", "e", "n", "y", "a">>

\* "Senior director, principal, manager"
D_directors ==
  <<"S", "e", "n", "i", "o", "r", " ", "d", "i", "r", "e", "c", "t", "o",
    "r", ",", " ", "p", "r", "i", "n", "c", "i", "p", "a", "l", ",", " ",
    "m", "a", "n", "a", "g", "e", "r">>

\* the number of texts of a list that a text contains
Hits(text, keywords) ==
  Cardinality({ k \in 1..Len(keywords) : Contains(text, keywords[k]) })

\* the score before min(max(score, 0), 100)
raw_score(job_title, job_description) ==
  LET title_lower == Lower(job_title)
      desc_lower == Lower(OrEmpty(job_description))
      desc_score ==
        5 * Cardinality({ k \in 1..Len(Config_KEYWORDS) :
                            Contains(desc_lower, Lower(Config_KEYWORDS[k])) })
      located ==
        \E k \in 1..Len(location_keywords) :
          \/ Contains(desc_lower, location_keywords[k])
          \/ Contains(title_lower, location_keywords[k])
      negatives ==
        Cardinality({ k \in 1..Len(negative_keywords) :
                        \/ Contains(title_lower, negative_keywords[k])
                        \/ Contains(desc_lower, negative_keywords[k]) })
  IN 20 * Hits(title_lower, priority_keywords)
     + 15 * Hits(title_lower, medium_keywords)
     + Min(desc_score, 30)
     + (IF located THEN 10 ELSE 0)
     - 20 * negatives

\* max(score, 0) left out
calculate_relevance_no_floor(job_title, job_description, company) ==
  Min(raw_score(job_title, job_description), 100)

calculate_relevance(job_title, job_description, company) ==
  Min(Max(raw_score(job_title, job_description), 0), 100)

ScoreTitles ==
  {<<>>, T_many, T_senior, T_python, T_associate, T_nurse, T_senior_python,
   T_remote}

ScoreDescriptions ==
  {Null, <<>>, D_nairobi, D_years, D_many, D_kenya, D_directors}

ScoreCompanies == {Null, <<>>, S_Acme}

\* a call of calculate_relevance that has not returned
ScoreCall(t, d, c) ==
  [op |-> "calculate_relevance", job |-> 0, path |-> "called", ret |-> 0,
   title |-> t, description |-> d, company |-> c]

InitScore ==
  /\ jobs = <<>>
  /\ apps = <<>>
  /\ logs = <<>>
  /\ settings = <<>>
  /\ stats = <<>>
  /\ now = 0
  /\ run = IdleRun
  /\ sent = <<>>
  /\ runs = 0
  /\ last \in { ScoreCall(t, d, c) :
                  t \in ScoreTitles, d \in ScoreDescriptions,
                  c \in ScoreCompanies }

CalculateRelevance ==
  /\ last.op = "calculate_relevance"
  /\ last.path = "called"
  /\ last' = [last EXCEPT
                !.path = "returned",
                !.ret = calculate_relevance(last.title, last.description,
                                            last.company)]
  /\ UNCHANGED <<jobs, apps, logs, settings, stats, now, run, sent, runs>>

NextScore == CalculateRelevance

SpecScore == InitScore /\ [][NextScore]_vars

----------------------------------------------------------------------------
(* ScraperManager.scrape_all with the Adzuna keys unset: the RemoteOK feed  *)
(* is filtered and shaped by _scrape_remoteok and handed to save_jobs.      *)

\* raw feed records of one response
MaxRaw == 2

remoteok_keywords ==
  { <<"p", "y", "t", "h", "o", "n">>,
    <<"d", "e", "v", "e", "l", "o", "p", "e", "r">>,
    <<"e", "n", "g", "i", "n", "e", "e", "r">>,
    <<"d", "a", "t", "a">>,
    <<"j", "u", "n", "i", "o", "r">>,
    <<"f", "u", "l", "l", " ", "s", "t", "a", "c", "k">>,
    <<"b", "a", "c", "k", "e", "n", "d">>,
    <<"d", "e", "v", "o", "p", "s">>,
    <<"s", "e", "c", "u", "r", "i", "t", "y">>,
    <<"s", "o", "f", "t", "w", "a", "r", "e">>,
    <<"t", "e", "c", "h">>,
    <<"p", "r", "o", "g", "r", "a", "m", "m", "e", "r">>,
    <<"a", "n", "a", "l", "y", "s", "t">>,
    <<"f", "l", "a", "s", "k">>,
    <<"d", "a", "t", "a", " ", "r", "e",
      "c", "o", "r", "d", "i", "n", "g">>,
    <<"i", "t", " ", "s", "u", "p", "p", "o", "r", "t">>,
    <<"n", "e", "t", "w", "o", "r", "k">>,
    <<"a", "d", "m", "i", "n", "i", "s", "t", "r", "a", "t", "o", "r">>,
    <<"t", "e", "c", "h", "n", "i", "c", "i", "a", "n">>,
    <<"c", "y", "b", "e", "r", "s", "e", "c", "u", "r", "i", "t", "y">>,
    <<"d", "a", "t", "a", "b", "a", "s", "e">>,
    <<"f", "r", "o", "n", "t", "e", "n", "d">>,
    <<"a", "p", "i">>,
    <<"c", "l", "o", "u", "d">>,
    <<"l", "i", "n", "u", "x">>,
    <<"w", "i", "n", "d", "o", "w", "s">>,
    <<"h", "e", "l", "p", "d", "e", "s", "k">>,
    <<"i", "n", "f", "r", "a", "s", "t",
      "r", "u", "c", "t", "u", "r", "e">>,
    <<"s", "u", "p", "p", "o", "r", "t">>,
    <<"i", "t">> }

S_Remote == <<"R", "e", "m", "o", "t", "e">>
S_Dev_Ops_sp == <<" ", "D", "e", "v", "O", "p", "s">>

\* a feed record; "" and <<>> stand for a key that is missing or empty, which
\* job.get(key, '') and "job.get('url') or ..." do not tell apart
RawJob(t, c, u, a) == [title |-> t, company |-> c, url |-> u, apply_url |-> a]

RawFeed ==
  { RawJob(t, S_Corp, u, a) :
      t \in {S_DevOps, S_Dev_Ops_sp, S_Ops, <<>>, S_blank},
      u \in {"u1", ""}, a \in {"u3", ""} }

RawResponses == UNION { [1..n -> RawFeed] : n \in 1..MaxRaw }

matches_keyword(job) ==
  \E kw \in remoteok_keywords :
    \/ Contains(Lower(job.title), Lower(kw))
    \/ Contains(Lower(job.company), Lower(kw))

\* the feed records that match a keyword, computed once
keyword_matches == { job \in RawFeed : matches_keyword(job) }

job_key(job) == <<Lower(job.title), Lower(job.company)>>

RemoteokKept(job, seen) ==
  /\ job \in keyword_matches
  /\ Strip(Lower(job.title)) # <<>>
  /\ job_key(job) \notin seen

RemoteokData(job) ==
  JobData(Strip(job.title), Strip(job.company),
          IF job.url # "" THEN job.url ELSE job.apply_url,
          S_Remote, <<>>, 65, S_Remote)

RECURSIVE RemoteokLoop(_, _, _)
RemoteokLoop(feed, seen, out) ==
  IF feed = <<>> \/ Len(out) >= 30 THEN out
  ELSE LET job == Head(feed)
       IN IF RemoteokKept(job, seen)
          THEN RemoteokLoop(Tail(feed), seen \cup {job_key(job)},
                            Append(out, RemoteokData(job)))
          ELSE RemoteokLoop(Tail(feed), seen, out)

_scrape_remoteok(response) ==
  RemoteokLoop(Take(response, Min(50, Len(response))), {}, <<>>)

scrape_all(response, commitOk, statsCommitOk) ==
  save_jobs(_scrape_remoteok(response), commitOk, statsCommitOk)

ScrapeAll ==
  /\ run.pc = "idle"
  /\ \E response \in RawResponses, commitOk \in BOOLEAN,
        statsCommitOk \in BOOLEAN :
       scrape_all(response, commitOk, statsCommitOk)

InitScrape ==
  /\ Init
  /\ settings = <<>>

NextScrape ==
  \/ Tick
  \/ ScrapeAll

SpecScrape == InitScrape /\ [][NextScrape]_vars

----------------------------------------------------------------------------
(* The freshness filter of spec.md section 4.4, isFresh(postedDateText,     *)
(* maxAgeDays), and the ingest step that applies it before a posting is     *)
(* stored.  Its code is not among the files of src/; the definitions of     *)
(* this section follow the text of the specification.                        *)

\* largest N of the "N days ago" texts
MaxAgo == 21

W_today == <<"t", "o", "d", "a", "y">>
W_day == <<"d", "a", "y">>
W_days == <<"d", "a", "y", "s">>
W_week == <<"w", "e", "e", "k">>
W_weeks == <<"w", "e", "e", "k", "s">>
W_ago == <<"a", "g", "o">>

\* the decimal digits of n
RECURSIVE FormatInt(_)
FormatInt(n) ==
  IF n < 10 THEN <<Digits[n + 1]>>
  ELSE Append(FormatInt(n \div 10), Digits[(n % 10) + 1])

DaysAgoText(n) ==
  FormatInt(n) \o <<" ">> \o (IF n = 1 THEN W_day ELSE W_days) \o <<" ">> \o W_ago

WeeksAgoText(n) ==
  FormatInt(n) \o <<" ">> \o (IF n = 1 THEN W_week ELSE W_weeks) \o <<" ">>
    \o W_ago

\* texts that are no relative-date phrase
T_soon == <<"s", "o", "o", "n">>
T_3_days == <<"3", " ", "d", "a", "y", "s">>
T_x_days_ago == <<"x", " ", "d", "a", "y", "s", " ", "a", "g", "o">>
T_ago_3_days == <<"a", "g", "o", " ", "3", " ", "d", "a", "y", "s">>

UnparseableTexts == {<<>>, S_blank, T_soon, T_3_days, T_x_days_ago, T_ago_3_days}

PostedTexts ==
  {Null, W_today, <<" ">> \o DaysAgoText(3) \o <<" ">>,
   <<"3", " ", "D", "a", "y", "s", " ", "A", "g", "o">>}
    \cup UnparseableTexts
    \cup { DaysAgoText(n) : n \in 0..MaxAgo }
    \cup { WeeksAgoText(n) : n \in 1..3 }

AgeLimits == {0, 1, 14, 30}

\* the words of a text, split at blanks
RECURSIVE SplitWords(_, _)
SplitWords(s, cur) ==
  IF s = <<>> THEN (IF cur = <<>> THEN <<>> ELSE <<cur>>)
  ELSE IF IsSpace(Head(s))
       THEN (IF cur = <<>> THEN <<>> ELSE <<cur>>) \o SplitWords(Tail(s), <<>>)
       ELSE SplitWords(Tail(s), Append(cur, Head(s)))

IsNumber(w) ==
  /\ w # <<>>
  /\ \A i \in 1..Len(w) : \E d \in 1..10 : Digits[d] = w[i]

RECURSIVE ParseInt(_)
ParseInt(w) ==
  IF w = <<>> THEN 0
  ELSE 10 * ParseInt(SubSeq(w, 1, Len(w) - 1))
         + ((CHOOSE d \in 1..10 : Digits[d] = w[Len(w)]) - 1)

\* the week-based threshold, kept apart from the day-based one
MaxAgeWeeks == 2

\* fresh while N is below the limit
isFresh_below(postedDateText, maxAgeDays) ==
  IF postedDateText = Null THEN TRUE
  ELSE LET w == SplitWords(Lower(postedDateText), <<>>)
       IN IF Len(w) = 3 /\ IsNumber(w[1]) /\ w[3] = W_ago
          THEN IF w[2] \in {W_day, W_days} THEN ParseInt(w[1]) < maxAgeDays
               ELSE IF w[2] \in {W_week, W_weeks}
               THEN ParseInt(w[1]) < MaxAgeWeeks
               ELSE TRUE
          ELSE TRUE

isFresh(postedDateText, maxAgeDays) ==
  IF postedDateText = Null THEN TRUE
  ELSE LET w == SplitWords(Lower(postedDateText), <<>>)
       IN IF Len(w) = 3 /\ IsNumber(w[1]) /\ w[3] = W_ago
          THEN IF w[2] \in {W_day, W_days} THEN ParseInt(w[1]) <= maxAgeDays
               ELSE IF w[2] \in {W_week, W_weeks}
               THEN ParseInt(w[1]) <= MaxAgeWeeks
               ELSE TRUE
          ELSE TRUE

\* a posting that came with a posted-date text, before the filter has judged it
FreshCall(text, maxAge) ==
  [op |-> "isFresh", job |-> 0, path |-> "called", ret |-> 0,
   text |-> text, maxAge |-> maxAge]

DatedPosting == JobData(S_Dev, S_Acme, "u1", S_Ke, Null, 70, S_Rem)

InitFresh ==
  /\ jobs = <<>>
  /\ apps = <<>>
  /\ logs = <<>>
  /\ settings = <<>>
  /\ stats = <<>>
  /\ now = 0
  /\ run = IdleRun
  /\ sent = <<>>
  /\ runs = 0
  /\ last \in { FreshCall(text, maxAge) :
                  text \in PostedTexts, maxAge \in AgeLimits }

IsFresh ==
  /\ last.op = "isFresh"
  /\ last.path = "called"
  /\ last' = [last EXCEPT
                !.path = "returned",
                !.ret = IF isFresh(last.text, last.maxAge) THEN 1 ELSE 0]
  /\ UNCHANGED <<jobs, apps, logs, settings, stats, now, run, sent, runs>>

\* the posting goes on to the store when it was judged fresh
KeepFresh ==
  /\ last.op = "isFresh"
  /\ last.path = "returned"
  /\ last.ret = 1
  /\ \E commitOk \in BOOLEAN, statsCommitOk \in BOOLEAN :
       save_jobs(<<DatedPosting>>, commitOk, statsCommitOk)

DropStale ==
  /\ last.op = "isFresh"
  /\ last.path = "returned"
  /\ last.ret = 0
  /\ last' = [last EXCEPT !.path = "dropped"]
  /\ UNCHANGED <<jobs, apps, logs, settings, stats, now, run, sent, runs>>

NextFresh ==
  \/ IsFresh
  \/ KeepFresh
  \/ DropStale

SpecFresh == InitFresh /\ [][NextFresh]_vars

----------------------------------------------------------------------------
(* The scheduler invoked again and again on a fixed set of jobs, with a     *)
(* store that does not fail: no clock, no scraping, no request.  Every      *)
(* posting carries a recruiter address, so the tables stay bounded however  *)
(* many invocations there are.                                              *)

LivePostings ==
  { JobData(S_Dev, "Acme", "u1", S_Ke, <<"apply", "jane.doe@acme.com">>, 90,
            S_Rem),
    JobData(S_Ops, "Acme", "u2", S_Ke, <<"apply", "hr@corp.io">>, 70, S_Rem) }

LiveTables ==
  { <<JobRow(p[1]), JobRow(p[2])>> :
      p \in { q \in LivePostings \X LivePostings : q[1] # q[2] } }

InitLive ==
  /\ jobs \in LiveTables
  /\ apps = <<>>
  /\ logs = <<>>
  /\ settings \in { <<SettingsRow(TRUE, mx, c[1], c[2], c[3])>> :
                      mx \in 1..MaxQuota, c \in Criteria }
  /\ stats = <<>>
  /\ now = 0
  /\ run = IdleRun
  /\ sent = <<>>
  /\ runs = 0
  /\ last = NoOp

LiveRunStart ==
  /\ run_daily_auto_apply
  /\ UNCHANGED runs

LiveApplyToJob ==
  /\ run.pc = "loop"
  /\ Len(run.passed) < Len(run.admitted)
  /\ \E mail \in MailOutcomes : _apply_to_job(NextJob, TRUE, mail, TRUE, TRUE)
  /\ UNCHANGED <<stats, now, runs>>

NextLive ==
  \/ LiveRunStart
  \/ LiveApplyToJob
  \/ RunEnd

\* the scheduler is invoked again after every invocation, and an invocation
\* runs to its end; in every state one of the three actions is the only one
\* enabled
SpecLive == InitLive /\ [][NextLive]_vars /\ WF_vars(NextLive)

----------------------------------------------------------------------------
(* Two invocations of run_daily_auto_apply at the same time, each with its  *)
(* own session on the same store.  Nothing in the code locks a job or the   *)
(* settings row, so the statements of the two interleave: the read of       *)
(* job.application, the send, the commit.  Here run is the pair of the two  *)
(* invocations and the store does not fail.                                 *)

\* an invocation: its position, the settings row it loaded, the slice it
\* walks, the jobs it has left behind, the job in hand and the address found
\* for it, applied_count, and the value of total_auto_applied its session
\* holds when it has changed it without having written it
PairIdle ==
  [pc |-> "idle", sid |-> 0, admitted |-> <<>>, passed |-> 0, job |-> 0,
   to |-> None, applied_count |-> 0, dirty |-> FALSE, total |-> 0]

PairTables ==
  LiveTables
    \cup { <<JobRow(a), JobRow(b)>> : a \in LivePostings,
             b \in { d \in Catalog : d.description = Null } }

InitPair ==
  /\ jobs \in PairTables
  /\ apps = <<>>
  /\ logs = <<>>
  /\ settings \in { <<SettingsRow(TRUE, mx, Null, Null, Null)>> :
                      mx \in 1..MaxQuota }
  /\ stats = <<>>
  /\ now = 0
  /\ run = <<PairIdle, PairIdle>>
  /\ sent = <<>>
  /\ runs = 0
  /\ last = NoOp

\* db.session.commit() of invocation i: the changed counter is written as
\* the value the session holds
PairFlush(i) ==
  IF run[i].dirty
  THEN [settings EXCEPT ![run[i].sid].total_auto_applied = run[i].total]
  ELSE settings

\* settings.total_auto_applied += 1 after a commit: the expired attribute is
\* loaded again, incremented and left for the next commit
PairCounted(i, tbl) ==
  [run[i] EXCEPT !.pc = "loop", !.passed = @ + 1, !.job = 0, !.to = None,
                 !.applied_count = @ + 1, !.dirty = TRUE,
                 !.total = tbl[run[i].sid].total_auto_applied + 1]

PairPassed(i) ==
  [run[i] EXCEPT !.pc = "loop", !.passed = @ + 1, !.job = 0, !.to = None,
                 !.dirty = FALSE]

PairStart(i) ==
  /\ run[i].pc = "idle"
  /\ IF EnabledIds = {}
     THEN run' = [run EXCEPT ![i].pc = "done"]
     ELSE \E matching_jobs \in _find_matching_jobs(settings[FirstEnabled]) :
            IF matching_jobs = <<>>
            THEN run' = [run EXCEPT ![i].pc = "done"]
            ELSE run' = [run EXCEPT
                   ![i].pc = "loop", ![i].sid = FirstEnabled,
                   ![i].admitted =
                     SliceTo(matching_jobs,
                             settings[FirstEnabled].max_applications_per_day)]
  /\ last' = [op |-> "run", job |-> 0, path |-> "started", ret |-> i]
  /\ UNCHANGED <<jobs, apps, logs, settings, stats, now, sent, runs>>

\* if job.application: the "skipped" log and its commit, or on to the letter
\* and the address
PairCheck(i) ==
  /\ run[i].pc = "loop"
  /\ run[i].passed < Len(run[i].admitted)
  /\ LET j == run[i].admitted[run[i].passed + 1]
     IN IF HasApplication(j)
        THEN /\ logs' = Append(logs, LogRow(j, "skipped", None, FALSE, FALSE))
             /\ settings' = PairFlush(i)
             /\ run' = [run EXCEPT ![i] = PairPassed(i)]
             /\ last' = [op |-> "apply", job |-> j, path |-> "skipped",
                         ret |-> i]
        ELSE /\ run' = [run EXCEPT
                  ![i].pc = "send", ![i].job = j,
                  ![i].to = _extract_email(OrEmpty(jobs[j].description))]
             /\ last' = [op |-> "apply", job |-> j, path |-> "checked",
                         ret |-> i]
             /\ UNCHANGED <<logs, settings>>
  /\ UNCHANGED <<jobs, apps, stats, now, sent, runs>>

\* the send of the automatic branch; the manual branch as a whole
PairSend(i) ==
  /\ run[i].pc = "send"
  /\ LET j == run[i].job
     IN IF run[i].to # None
        THEN /\ \E mail \in MailOutcomes :
                  IF _send_application_email(mail)
                  THEN /\ sent' = Append(sent, [job |-> j, to |-> run[i].to])
                       /\ run' = [run EXCEPT ![i].pc = "commit"]
                       /\ last' = [op |-> "apply", job |-> j, path |-> "sent",
                                   ret |-> i]
                  ELSE /\ run' = [run EXCEPT
                            ![i].pc = "loop", ![i].passed = @ + 1,
                            ![i].job = 0, ![i].to = None]
                       /\ last' = [op |-> "apply", job |-> j,
                                   path |-> "unsent", ret |-> i]
                       /\ UNCHANGED sent
             /\ UNCHANGED <<jobs, apps, logs, settings>>
        ELSE /\ apps' = Append(apps, ApplicationRow(j, FALSE))
             /\ jobs' = [jobs EXCEPT ![j].status = "Found"]
             /\ logs' = Append(logs,
                          LogRow(j, "manual_apply_needed", None, FALSE, TRUE))
             /\ settings' = PairFlush(i)
             /\ run' = [run EXCEPT ![i] = PairCounted(i, PairFlush(i))]
             /\ last' = [op |-> "apply", job |-> j,
                         path |-> "manual_apply_needed", ret |-> i]
             /\ UNCHANGED sent
  /\ UNCHANGED <<stats, now, runs>>

\* the rows of the automatic branch, its commit and the increment
PairCommit(i) ==
  /\ run[i].pc = "commit"
  /\ LET j == run[i].job
     IN /\ apps' = Append(apps, ApplicationRow(j, TRUE))
        /\ jobs' = [jobs EXCEPT ![j].status = "Applied",
                                ![j].applied_date = now]
        /\ logs' = Append(logs,
                     LogRow(j, "auto_applied", run[i].to, TRUE, TRUE))
        /\ settings' = PairFlush(i)
        /\ run' = [run EXCEPT ![i] = PairCounted(i, PairFlush(i))]
        /\ last' = [op |-> "apply", job |-> j, path |-> "auto_applied",
                    ret |-> i]
  /\ UNCHANGED <<stats, now, sent, runs>>

\* settings.last_run, the last commit and the return
PairEnd(i) ==
  /\ run[i].pc = "loop"
  /\ run[i].passed = Len(run[i].admitted)
  /\ settings' = [PairFlush(i) EXCEPT ![run[i].sid].last_run = now]
  /\ run' = [run EXCEPT ![i].pc = "done", ![i].dirty = FALSE]
  /\ last' = [op |-> "run", job |-> 0, path |-> "done",
              ret |-> run[i].applied_count]
  /\ UNCHANGED <<jobs, apps, logs, stats, now, sent, runs>>

NextPair ==
  \/ \E i \in 1..2 : PairStart(i)
  \/ \E i \in 1..2 : PairCheck(i)
  \/ \E i \in 1..2 : PairSend(i)
  \/ \E i \in 1..2 : PairCommit(i)
  \/ \E i \in 1..2 : PairEnd(i)

SpecPair == InitPair /\ [][NextPair]_vars

----------------------------------------------------------------------------
(* Vocabulary of the statements below.                                     *)

\* the state hands a job to _apply_to_job in its next step
ApplyPending == run.pc = "loop" /\ Len(run.passed) < Len(run.admitted)

\* the step is a call of _apply_to_job that returned to the loop
ApplyReturns == ApplyPending /\ run'.pc = "loop" /\ run'.passed # run.passed

\* the step is run_daily_auto_apply leaving its loop (last_run, commit)
LoopLeft == run.pc = "loop" /\ Len(run.passed) = Len(run.admitted)
            /\ run'.pc = "idle"

AppsOf(tbl, j) == { k \in 1..Len(tbl) : tbl[k].job_id = j }

LogsOf(tbl, j, action) ==
  { k \in 1..Len(tbl) : tbl[k].job_id = j /\ tbl[k].action = action }

Quota == settings[run.sid].max_applications_per_day

Score(j) == jobs[j].relevance_score

\* settings.total_auto_applied as the invocation sees it
TotalSeen(tbl, r) == tbl[r.sid].total_auto_applied + r.pending

\* the first word of a description that the e-mail pattern matches
IsFirstAddress(description, addr) ==
  \E i \in 1..Len(description) :
    /\ description[i] = addr
    /\ addr \in EmailWords
    /\ \A k \in 1..(i - 1) : description[k] \notin EmailWords

HasAddress(description) ==
  description # Null /\ \E i \in 1..Len(description) : description[i] \in EmailWords

----------------------------------------------------------------------------
\* C1: with max_applications_per_day >= 0, an invocation admits exactly the
\* first min(len(candidates), max_applications_per_day) candidates of the
\* Matcher's list, these have the highest relevance scores, the jobs handed
\* to _apply_to_job are always a prefix of the admitted ones whatever the
\* outcome of each, and an invocation that leaves its loop has handed over
\* all of them and no other.
C1Admission ==
  (run.pc = "loop" /\ Quota >= 0) =>
    LET n == Min(Len(run.matching), Quota)
    IN /\ Len(run.admitted) = n
       /\ \A i \in 1..n : run.admitted[i] = run.matching[i]
       /\ Len(run.passed) <= n
       /\ \A i \in 1..Len(run.passed) : run.passed[i] = run.matching[i]
       /\ \A a \in 1..n, b \in (n + 1)..Len(run.matching) :
            Score(run.matching[a]) >= Score(run.matching[b])

C1Completion ==
  (LoopLeft /\ Quota >= 0) =>
    /\ Len(run.passed) = Min(Len(run.matching), Quota)
    /\ run.passed = Take(run.matching, Len(run.passed))

C1Theorem == []C1Admission /\ [][C1Completion]_vars

\* two candidates, a quota of one, and the one admitted job was processed
C1Witness ==
  /\ run.pc = "loop"
  /\ Len(run.matching) = 2
  /\ Quota = 1
  /\ run.passed = <<run.matching[1]>>
  /\ last.op = "apply"

----------------------------------------------------------------------------
\* C2: a job whose status is "Applied" is never in the list the Matcher
\* returns to an invocation, is never handed to _apply_to_job, and no step
\* of an invocation adds an ApplicationRecord or an "auto_applied" log for
\* it.
C2Step ==
  \A j \in 1..Len(jobs) :
    jobs[j].status = "Applied" =>
      /\ AppsOf(apps', j) = AppsOf(apps, j)
      /\ LogsOf(logs', j, "auto_applied") = LogsOf(logs, j, "auto_applied")
      /\ (run.pc = "idle" /\ run'.pc = "loop") =>
           \A i \in 1..Len(run'.matching) : run'.matching[i] # j
      /\ ApplyPending => NextJob # j

C2Theorem == [][C2Step]_vars

\* a second invocation started on a store that held an applied job
C2Witness ==
  /\ runs = 2
  /\ last.op = "run"
  /\ last.path \in {"started", "no_match"}
  /\ \E j \in 1..Len(jobs) :
       /\ jobs[j].status = "Applied"
       /\ Cardinality(AppsOf(apps, j)) = 1
       /\ Cardinality(LogsOf(logs, j, "auto_applied")) = 1

----------------------------------------------------------------------------
\* C3: when _apply_to_job takes a job without ApplicationRecord whose
\* description holds an address, the send succeeds and the call returns, the
\* job is "Applied" with applied_date set, it has exactly one
\* ApplicationRecord and that one has email_sent, total_auto_applied is one
\* higher, and exactly one log row was appended: "auto_applied", email_sent,
\* recruiter_email the first address of the description.
C3Step ==
  (/\ ApplyReturns
   /\ AppsOf(apps, NextJob) = {}
   /\ HasAddress(jobs[NextJob].description)
   /\ Len(sent') = Len(sent) + 1)
  => LET j == NextJob
     IN /\ jobs'[j].status = "Applied"
        /\ jobs'[j].applied_date = now
        /\ jobs'[j].applied_date # NoDate
        /\ Cardinality(AppsOf(apps', j)) = 1
        /\ \A k \in AppsOf(apps', j) : apps'[k].email_sent
        /\ TotalSeen(settings', run') = TotalSeen(settings, run) + 1
        /\ Len(logs') = Len(logs) + 1
        /\ SubSeq(logs', 1, Len(logs)) = logs
        /\ logs'[Len(logs')].job_id = j
        /\ logs'[Len(logs')].action = "auto_applied"
        /\ logs'[Len(logs')].email_sent
        /\ IsFirstAddress(jobs[j].description, logs'[Len(logs')].recruiter_email)
        /\ sent'[Len(sent')] = [job |-> j, to |-> logs'[Len(logs')].recruiter_email]

C3Theorem == [][C3Step]_vars

\* the job with two addresses in its description was applied to
C3Witness ==
  /\ last.op = "apply"
  /\ last.path = "auto_applied"
  /\ jobs[last.job].status = "Applied"
  /\ Len(jobs[last.job].description) = 3
  /\ sent # <<>>

----------------------------------------------------------------------------
\* C4: when _apply_to_job takes a job without ApplicationRecord whose
\* description holds no address and the call returns, an ApplicationRecord
\* with email_sent false was created, one log row "manual_apply_needed" was
\* appended, no application e-mail was sent and the job's status is "Found".
C4Step ==
  (/\ ApplyReturns
   /\ AppsOf(apps, NextJob) = {}
   /\ ~HasAddress(jobs[NextJob].description)
   /\ last'.ret = 1)
  => LET j == NextJob
     IN /\ Cardinality(AppsOf(apps', j)) = 1
        /\ \A k \in AppsOf(apps', j) : ~apps'[k].email_sent
        /\ Len(logs') = Len(logs) + 1
        /\ SubSeq(logs', 1, Len(logs)) = logs
        /\ logs'[Len(logs')].job_id = j
        /\ logs'[Len(logs')].action = "manual_apply_needed"
        /\ ~logs'[Len(logs')].email_sent
        /\ sent' = sent
        /\ jobs'[j].status = "Found"
        /\ jobs'[j] = jobs[j]

C4Theorem == [][C4Step]_vars

\* a job whose description is NULL was left for manual application
C4Witness ==
  /\ last.op = "apply"
  /\ last.path = "manual_apply_needed"
  /\ jobs[last.job].status = "Found"
  /\ jobs[last.job].description = Null
  /\ AppsOf(apps, last.job) # {}

----------------------------------------------------------------------------
\* C5: whatever fails while one admitted job is processed, _apply_to_job
\* returns to the loop of run_daily_auto_apply, so that the other admitted
\* jobs are processed and the invocation reaches its end.
C5Contained ==
  [][ApplyPending =>
       (run'.pc = "loop" /\ run'.passed = Append(run.passed, NextJob))]_vars

----------------------------------------------------------------------------
\* C6: when an address was extracted for the job and the e-mail transport
\* fails, the processing of the job appends an AutoApplyLog row with action
\* "error".
C6ErrorLogged ==
  [][(/\ ApplyReturns
      /\ AppsOf(apps, NextJob) = {}
      /\ HasAddress(jobs[NextJob].description)
      /\ last'.path = "unsent")
     => (/\ Len(logs') = Len(logs) + 1
         /\ logs'[Len(logs')].job_id = NextJob
         /\ logs'[Len(logs')].action = "error")]_vars

----------------------------------------------------------------------------
\* C7: every call of _apply_to_job that returns has appended exactly one
\* AutoApplyLog row for its job, with one of the four actions, and no step
\* removes or changes a row of the table.
LogActions == {"skipped", "auto_applied", "manual_apply_needed", "error"}

C7Step ==
  /\ Len(logs') >= Len(logs)
  /\ SubSeq(logs', 1, Len(logs)) = logs
  /\ ApplyReturns =>
       /\ Len(logs') = Len(logs) + 1
       /\ logs'[Len(logs')].job_id = NextJob
       /\ logs'[Len(logs')].action \in LogActions

C7OneLogPerJob == [][C7Step]_vars

----------------------------------------------------------------------------
\* C8: a call of _apply_to_job that appends an "error" log leaves the job as
\* it was: status "Found", applied_date and every other column unchanged, no
\* ApplicationRecord added; the job still matches the criteria of the
\* invocation, which goes on.
C8Step ==
  (/\ ApplyPending
   /\ Len(logs') > Len(logs)
   /\ logs'[Len(logs')].action = "error")
  => LET j == NextJob
     IN /\ logs'[Len(logs')].job_id = j
        /\ jobs' = jobs
        /\ jobs'[j].status = "Found"
        /\ apps' = apps
        /\ sent' = sent
        /\ Matches(jobs'[j], settings'[run.sid])
        /\ run'.pc = "loop"

C8Theorem == [][C8Step]_vars

\* a job with an "error" log of the first invocation is among the candidates
\* of the second
C8Witness ==
  /\ runs = 2
  /\ run.pc = "loop"
  /\ run.passed = <<>>
  /\ \E i \in 1..Len(run.matching) :
       LogsOf(logs, run.matching[i], "error") # {}

----------------------------------------------------------------------------
\* C9: every invocation that finds enabled settings and returns has set
\* last_run of these settings to the time of the invocation, with no
\* matching candidate as well as with some.
C9Returns ==
  /\ last'.op = "run"
  /\ \/ run.pc = "idle" /\ runs' = runs + 1 /\ last'.path = "no_match"
     \/ LoopLeft /\ last'.path = "done"

C9LastRunSet ==
  [][C9Returns =>
       LET sid == IF run.pc = "loop" THEN run.sid ELSE FirstEnabled
       IN settings'[sid].last_run = now]_vars

----------------------------------------------------------------------------
\* C10: when an invocation returns, jobs_applied of the Stats row of its
\* date has grown by the number of jobs the invocation took from "Found" to
\* "Applied".
JobsApplied(tbl, date) ==
  IF StatsIndex(tbl, date) > Len(tbl) THEN 0
  ELSE tbl[StatsIndex(tbl, date)].jobs_applied

AppliedByRun ==
  { j \in 1..Len(run.jobs0) :
      run.jobs0[j].status = "Found" /\ jobs'[j].status = "Applied" }

C10StatsFollow ==
  [][(LoopLeft /\ last'.path = "done") =>
       JobsApplied(stats', now)
         = JobsApplied(run.stats0, now) + Cardinality(AppliedByRun)]_vars

----------------------------------------------------------------------------
\* C11: no step of save_jobs or of an invocation of run_daily_auto_apply
\* removes a job or sets a job whose status is not "Found" back to "Found";
\* the manual branch of _apply_to_job writes "Found" only to a job that is
\* "Found".
C11Step ==
  /\ Len(jobs') >= Len(jobs)
  /\ \A j \in 1..Len(jobs) :
       jobs[j].status # "Found" => jobs'[j].status # "Found"
  /\ (ApplyPending /\ last'.path = "manual_apply_needed") =>
       jobs[NextJob].status = "Found"

C11Theorem == [][C11Step]_vars

\* the posting of an applied job was saved again, and a job was left for
\* manual application while another was applied
C11Witness ==
  /\ last.op = "save"
  /\ last.path = "saved"
  /\ last.ret = 0
  /\ \E j \in 1..Len(jobs) : jobs[j].status = "Applied"
  /\ \E k \in 1..Len(logs) : logs[k].action = "manual_apply_needed"

----------------------------------------------------------------------------
\* C12: in every state reached by save_jobs, invocations of the scheduler,
\* bulk_apply and update_job_status, the status of every job is one of
\* "Found", "Applied", "Interview", "Rejected", "Offer".
C12StatusDomain == \A j \in 1..Len(jobs) : jobs[j].status \in Statuses

----------------------------------------------------------------------------
\* C13: in every state reached by invocations of the scheduler, bulk_apply
\* and update_job_status, each job has at most one ApplicationRecord; in
\* particular a job that the manual branch left "Found" with its
\* ApplicationRecord gets no second one.
C13OneApplication ==
  \A j \in 1..Len(jobs) : Cardinality(AppsOf(apps, j)) <= 1

----------------------------------------------------------------------------
\* C14: whatever the store and the batch, the table that the loop of
\* save_jobs builds holds exactly one row for the (title, company, url) of
\* each record of the batch, whether the posting comes twice in the batch or
\* was stored by an earlier batch and whatever its description, and it keeps
\* the stored rows; a save adds rows only, each with a (title, company, url)
\* that no other row has; no two stored jobs ever share a job_id.
RowsOf(tbl, d) ==
  { k \in 1..Len(tbl) :
      tbl[k].title = d.title /\ tbl[k].company = d.company /\ tbl[k].url = d.url }

C14Unique ==
  \A a, b \in 1..Len(jobs) : a # b => jobs[a].job_id # jobs[b].job_id

C14Stored ==
  \A batch \in WideBatches :
    LET added == SaveLoop(jobs, batch)
    IN /\ SubSeq(added, 1, Len(jobs)) = jobs
       /\ \A i \in 1..Len(batch) : Cardinality(RowsOf(added, batch[i])) = 1

C14Step ==
  /\ Len(jobs') >= Len(jobs)
  /\ SubSeq(jobs', 1, Len(jobs)) = jobs
  /\ \A k \in (Len(jobs) + 1)..Len(jobs') :
       Cardinality(RowsOf(jobs', jobs'[k])) = 1

C14Theorem == [](C14Unique /\ C14Stored) /\ [][C14Step]_vars

\* a save found nothing new in a store that holds the posting with its first
\* description, after a save that stored one job
C14Witness ==
  /\ last.op = "save"
  /\ last.path = "saved"
  /\ last.ret = 0
  /\ \E j \in 1..Len(jobs) :
       /\ jobs[j].title = S_Dev
       /\ jobs[j].relevance_score = 90
       /\ \A k \in 1..Len(jobs) : jobs[k].relevance_score # 70 \/ jobs[k].url # "u1"
  /\ \E k \in 1..Len(stats) : stats[k].jobs_found >= 1

----------------------------------------------------------------------------
\* C15: a posting whose title, company and url equal those of a stored job
\* after case and whitespace normalization has the fingerprint of that job,
\* with generate_job_id of the scraper manager and with that of scrapers.py,
\* so that save_jobs rejects it as known: no two stored jobs are equal after
\* normalization.
RECURSIVE Collapse(_)
Collapse(s) ==
  IF Len(s) < 2 THEN s
  ELSE IF IsSpace(s[1]) /\ IsSpace(s[2]) THEN Collapse(Tail(s))
  ELSE <<s[1]>> \o Collapse(Tail(s))

Normalized(text) == Lower(Collapse(Strip(text)))

SameNormalized(d, e) ==
  /\ Normalized(d.title) = Normalized(e.title)
  /\ Normalized(d.company) = Normalized(e.company)
  /\ d.url = e.url

C15FormatInsensitive ==
  /\ \A a, b \in 1..Len(jobs) : a # b => ~SameNormalized(jobs[a], jobs[b])
  /\ \A a \in 1..Len(jobs), d \in WideCatalog :
       SameNormalized(jobs[a], d) =>
         /\ generate_job_id(d.title, d.company, d.url) = jobs[a].job_id
         /\ JobScraper_generate_job_id(d.title, d.company, d.url)
              = JobScraper_generate_job_id(jobs[a].title, jobs[a].company,
                                           jobs[a].url)

----------------------------------------------------------------------------
\* C16: the list that _find_matching_jobs gives to an invocation holds, once
\* each, exactly the "Found" jobs that in each of title, location and
\* job_type with a non-empty configured list contain one of the configured
\* texts, case ignored; a dimension with an empty list filters nothing, so
\* with three empty lists it holds every "Found" job; it is ordered by
\* relevance_score, highest first.
HasAt(text, pat, off) ==
  \A k \in 1..Len(pat) : LowerChar(text[off + k]) = LowerChar(pat[k])

ContainsCI(text, pat) ==
  text # Null /\ \E off \in 0..(Len(text) - Len(pat)) : HasAt(text, pat, off)

Passes(text, configured) ==
  configured = <<>> \/ \E k \in 1..Len(configured) : ContainsCI(text, configured[k])

Expected(s) ==
  { i \in 1..Len(jobs) :
      /\ jobs[i].status = "Found"
      /\ Passes(jobs[i].title, get_job_titles_list(s))
      /\ Passes(jobs[i].location, get_locations_list(s))
      /\ Passes(jobs[i].job_type, get_job_types_list(s)) }

C16Step ==
  (run.pc = "idle" /\ runs' = runs + 1 /\ EnabledIds # {}) =>
    LET s == settings[FirstEnabled]
        unfiltered == /\ get_job_titles_list(s) = <<>>
                      /\ get_locations_list(s) = <<>>
                      /\ get_job_types_list(s) = <<>>
    IN IF Expected(s) = {}
       THEN last'.path = "no_match" /\ run'.pc = "idle"
       ELSE /\ run'.pc = "loop"
            /\ { run'.matching[i] : i \in 1..Len(run'.matching) } = Expected(s)
            /\ Len(run'.matching) = Cardinality(Expected(s))
            /\ \A a, b \in 1..Len(run'.matching) :
                 a < b => Score(run'.matching[a]) >= Score(run'.matching[b])
            /\ unfiltered =>
                 Len(run'.matching)
                   = Cardinality({ i \in 1..Len(jobs) : jobs[i].status = "Found" })

----------------------------------------------------------------------------
\* C17: every call of calculate_relevance, whatever the title, the
\* description (None and the empty text included) and the company, returns
\* an integer from 0 to 100: 100 when the score it has summed up is above
\* 100, 0 when it is below 0, and the sum itself otherwise.
C17Returned ==
  (last.op = "calculate_relevance" /\ last.path = "returned") =>
    LET raw == raw_score(last.title, last.description)
    IN /\ last.ret \in 0..100
       /\ raw > 100 => last.ret = 100
       /\ raw < 0 => last.ret = 0
       /\ raw \in 0..100 => last.ret = raw

C17Theorem == []C17Returned

\* a call without description whose title alone sums up to more than 100
C17Witness ==
  /\ last.op = "calculate_relevance"
  /\ last.path = "returned"
  /\ last.description = Null
  /\ raw_score(last.title, last.description) > 100
  /\ last.ret = 100

----------------------------------------------------------------------------
\* C18: an invocation of run_daily_auto_apply that finds no settings row with
\* enabled set returns 0 without raising and leaves the jobs, applications,
\* logs, settings and statistics as they were; no application e-mail is
\* sent.
C18Step ==
  (/\ run.pc = "idle"
   /\ runs' = runs + 1
   /\ \A i \in 1..Len(settings) : ~settings[i].enabled)
  => /\ last' = [op |-> "run", job |-> 0, path |-> "disabled", ret |-> 0]
     /\ run'.pc = "idle"
     /\ UNCHANGED <<jobs, apps, logs, settings, stats, sent>>

C18Theorem == [][C18Step]_vars

\* an invocation returned 0 on a store with a job and a disabled settings row
C18Witness ==
  /\ last.op = "run"
  /\ last.path = "disabled"
  /\ last.ret = 0
  /\ Len(settings) = 1
  /\ ~settings[1].enabled
  /\ \E j \in 1..Len(jobs) : jobs[j].status = "Found"

----------------------------------------------------------------------------
\* C19: when an invocation of run_daily_auto_apply returns, the stored
\* total_auto_applied of its settings row is higher than at its start by the
\* number of jobs for which it wrote an "auto_applied" or a
\* "manual_apply_needed" log, which is the count it returns; a job that is
\* skipped or that ends with an "error" log adds nothing, and an invocation
\* without candidate leaves the counter as it was.
Processed(tbl, from) ==
  { k \in (from + 1)..Len(tbl) :
      tbl[k].action \in {"auto_applied", "manual_apply_needed"} }

C19Step ==
  /\ (LoopLeft /\ last'.path = "done") =>
       LET n == Cardinality(Processed(logs', Len(run.logs0)))
       IN /\ settings'[run.sid].total_auto_applied
               = run.settings0[run.sid].total_auto_applied + n
          /\ last'.ret = n
  /\ (ApplyReturns /\ last'.path \in {"skipped", "error"}) =>
       TotalSeen(settings', run') = TotalSeen(settings, run)
  /\ (run.pc = "idle" /\ runs' = runs + 1 /\ run'.pc = "idle") =>
       (settings' = settings /\ last'.ret = 0)

C19Theorem == [][C19Step]_vars

\* the second invocation returned after a job left for manual application
\* and a skipped job, the counter stands at two
C19Witness ==
  /\ last.op = "run"
  /\ last.path = "done"
  /\ runs = 2
  /\ \E k \in 1..Len(logs) : logs[k].action = "manual_apply_needed"
  /\ \E k \in 1..Len(logs) : logs[k].action = "skipped"
  /\ \E i \in 1..Len(settings) : settings[i].total_auto_applied = 2

----------------------------------------------------------------------------
\* C20: under save_jobs, update_job_status and bulk_apply over the days, the
\* Stats table holds at most one row per date; a step adds at most one row,
\* for the current date and only when that date had none; no row is removed
\* or changes its date, and none of its five counters ever decreases.
Counters ==
  {"jobs_found", "jobs_applied", "interviews_scheduled",
   "rejections_received", "offers_received"}

C20OnePerDate ==
  \A a, b \in 1..Len(stats) : a # b => stats[a].date # stats[b].date

C20Step ==
  /\ Len(stats') \in {Len(stats), Len(stats) + 1}
  /\ \A i \in 1..Len(stats) :
       /\ stats'[i].date = stats[i].date
       /\ \A c \in Counters : stats'[i][c] >= stats[i][c]
  /\ Len(stats') = Len(stats) + 1 =>
       /\ stats'[Len(stats')].date = now
       /\ \A i \in 1..Len(stats) : stats[i].date # now
       /\ \A c \in Counters : stats'[Len(stats')][c] >= 0

C20Theorem == []C20OnePerDate /\ [][C20Step]_vars

\* on the second day a request added to a counter of the day's row, which
\* save_jobs had created; the first day has its own row
C20Witness ==
  /\ Len(stats) = 2
  /\ stats[1].date = 0
  /\ stats[1].jobs_found = 1
  /\ stats[2].date = 1
  /\ stats[2].jobs_applied = 1
  /\ last.op \in {"status", "bulk"}
  /\ last.ret = 200

----------------------------------------------------------------------------
\* C21: a step adds to jobs_applied of the Stats row of the day exactly the
\* number of jobs whose status it takes from another value to "Applied",
\* whether the scheduler, update_job_status or bulk_apply does it, and
\* nothing when "Applied" is set on a job that is "Applied"; a status update
\* that takes a job to "Interview", "Rejected" or "Offer" adds one to
\* interviews_scheduled, rejections_received or offers_received.
CounterAt(tbl, date, c) ==
  IF StatsIndex(tbl, date) > Len(tbl) THEN 0 ELSE tbl[StatsIndex(tbl, date)][c]

TakenTo(status) ==
  { j \in 1..Len(jobs) : jobs[j].status # status /\ jobs'[j].status = status }

C21Step ==
  /\ CounterAt(stats', now, "jobs_applied")
       = CounterAt(stats, now, "jobs_applied") + Cardinality(TakenTo("Applied"))
  /\ \A s \in {"Interview", "Rejected", "Offer"} :
       TakenTo(s) # {} =>
         CounterAt(stats', now, CounterOf(s))
           = CounterAt(stats, now, CounterOf(s)) + 1

C21Counted == [][C21Step]_vars

----------------------------------------------------------------------------
\* C22: every stored job has a title that is not empty and a url that is not
\* empty: a feed record whose title or url is missing or empty is dropped
\* before save_jobs stores it.
C22Identified ==
  \A j \in 1..Len(jobs) : jobs[j].title # <<>> /\ jobs[j].url # ""

----------------------------------------------------------------------------
\* C23: a call of _apply_to_job for an admitted job that has an
\* ApplicationRecord changes no job (status and applied_date stay), no
\* ApplicationRecord and sends no e-mail; when it finds the record and
\* returns, it has appended one "skipped" log and nothing else, has sent no
\* notification, has returned False and total_auto_applied is as the
\* invocation saw it before.
C23Step ==
  (ApplyPending /\ HasApplication(NextJob)) =>
    LET j == NextJob
        skipped == LogRow(j, "skipped", None, FALSE, FALSE)
    IN /\ jobs' = jobs
       /\ apps' = apps
       /\ sent' = sent
       /\ (ApplyReturns /\ last'.path # "error") =>
            /\ logs' = Append(logs, skipped)
            /\ last'.path = "skipped"
            /\ last'.ret = 0
            /\ "telegram" \notin DOMAIN last'
            /\ run'.applied_count = run.applied_count
            /\ TotalSeen(settings', run') = TotalSeen(settings, run)

C23Theorem == [][C23Step]_vars

\* a job left for manual application by the first invocation was skipped by
\* the second
C23Witness ==
  /\ last.op = "apply"
  /\ last.path = "skipped"
  /\ runs = 2
  /\ AppsOf(apps, last.job) # {}
  /\ LogsOf(logs, last.job, "skipped") # {}
  /\ jobs[last.job].status = "Found"

----------------------------------------------------------------------------
\* C24: isFresh returns true for the text "N days ago" exactly when N is at
\* most maxAgeDays (3 days with a limit of 14 is fresh, 20 days is not), and
\* true for a missing text and for a text that is no relative-date phrase; a
\* posting judged not fresh is never stored.
C24Judged ==
  (last.op = "isFresh" /\ last.path \in {"returned", "dropped"}) =>
    /\ \A n \in 0..MaxAgo :
         last.text = DaysAgoText(n) => (last.ret = 1 <=> n <= last.maxAge)
    /\ (last.text = DaysAgoText(3) /\ last.maxAge = 14) => last.ret = 1
    /\ (last.text = DaysAgoText(20) /\ last.maxAge = 14) => last.ret = 0
    /\ last.text \in UnparseableTexts \cup {Null} => last.ret = 1

C24Step ==
  (last.op = "isFresh" /\ last.path # "called" /\ last.ret = 0) => jobs' = jobs

----------------------------------------------------------------------------
\* C25: over any sequence of invocations of run_daily_auto_apply, an
\* invocation whose commit fails after the e-mail has gone out included, no
\* job has more than one application e-mail sent for it.
SentFor(j) == { k \in 1..Len(sent) : sent[k].job = j }

C25OneEmail == \A j \in 1..Len(jobs) : Cardinality(SentFor(j)) <= 1

----------------------------------------------------------------------------
\* C26: with a quota of at least one and a fixed set of jobs, every job that
\* is "Found", matches the criteria and has no ApplicationRecord is admitted
\* by some later invocation, also when jobs with a higher score stay "Found"
\* after a send that failed.
Eligible(j) ==
  /\ jobs[j].status = "Found"
  /\ AppsOf(apps, j) = {}
  /\ Matches(jobs[j], settings[1])
  /\ settings[1].max_applications_per_day >= 1

Admitted(j) ==
  /\ run.pc = "loop"
  /\ \E i \in 1..Len(run.admitted) : run.admitted[i] = j

C26NoStarvation == \A j \in 1..2 : Eligible(j) ~> Admitted(j)

----------------------------------------------------------------------------
\* C27: when two invocations of run_daily_auto_apply overlap, no job gets
\* more than one application e-mail or more than one ApplicationRecord, and
\* once both have returned total_auto_applied has grown by the number of
\* jobs the two have processed together.
C27Serializable ==
  /\ \A j \in 1..Len(jobs) :
       Cardinality(SentFor(j)) <= 1 /\ Cardinality(AppsOf(apps, j)) <= 1
  /\ (run[1].pc = "done" /\ run[2].pc = "done") =>
       settings[1].total_auto_applied
         = run[1].applied_count + run[2].applied_count

----------------------------------------------------------------------------
\* C28: a log row is written with telegram_sent set only by a call of
\* _apply_to_job in which send_telegram_notification returned True; when
\* Telegram is not configured or the delivery fails the row has
\* telegram_sent false.
Delivered(l) == "telegram" \in DOMAIN l /\ l.telegram

C28Step ==
  \A k \in (Len(logs) + 1)..Len(logs') :
    logs'[k].telegram_sent => Delivered(last')

C28Truthful == [][C28Step]_vars

----------------------------------------------------------------------------
\* C29: the count save_jobs returns is the number of jobs the call has added
\* to the store, and jobs_found of the Stats row of the day grows by that
\* number, also when a flush or a commit fails and is rolled back.
C29Step ==
  (last'.op = "save" /\ (last' # last \/ jobs' # jobs \/ stats' # stats)) =>
    /\ last'.ret = Len(jobs') - Len(jobs)
    /\ CounterAt(stats', now, "jobs_found")
         = CounterAt(stats, now, "jobs_found") + last'.ret

C29CountPersisted == [][C29Step]_vars

----------------------------------------------------------------------------
\* C30: after any sequence of scheduler invocations, bulk_apply requests and
\* status updates, every job with status "Applied" has an applied_date and
\* an ApplicationRecord, and every ApplicationRecord with email_sent set
\* belongs to a job whose status is not "Found".
C30AppliedBacked ==
  /\ \A j \in 1..Len(jobs) :
       jobs[j].status = "Applied" =>
         (jobs[j].applied_date # NoDate /\ AppsOf(apps, j) # {})
  /\ \A k \in 1..Len(apps) :
       apps[k].email_sent => jobs[apps[k].job_id].status # "Found"

====
